---- MODULE Spec2Model ----
(***************************************************************************)
(* Model of working-with-large-datasets/new_sample_data_generator.py: six  *)
(* chunked CSV generators, the orchestrator main() and the gzip helper.    *)
(*                                                                         *)
(* Numbers with decimals are fixed point, in units of 1e-5.                 *)
(* Money that the code rounds to 2 decimals is kept in cents.  Dates are   *)
(* day numbers since 1970-01-01, as numpy's datetime64[D] stores them.     *)
(* numpy's Generator is a deterministic stream: a state, a step function   *)
(* and one output per step; every sampling call consumes `size` outputs.   *)
(***************************************************************************)
EXTENDS Integers, Sequences, FiniteSets, TLC

(* -------------------------------- state -------------------------------- *)
VARIABLES
    folder_exists,      \* the destination folder exists
    files,              \* table name -> file (exists, lines)
    pc,                 \* "idle", "loop", "returned", "raised"
    error,              \* exception of the last call: <<type, message>>
    gen,                \* generator being executed
    args,               \* its arguments
    rng,                \* its random generator state
    wrote_header,       \* its wrote_header flag
    chunk_start,        \* its loop variable
    range_stop,         \* stop value of its range(...)
    product_prob,       \* popularity weights (sales, orders)
    product_unit_price, \* price table in cents (sales, orders)
    date_prob,          \* per-day weights, <<>> for None
    calls,              \* number of generator calls started
    before,             \* file system when the current call started
    prev,               \* outputs of earlier completed calls
    main_pc,            \* "none", "generate", "gzip", "done"
    main_args,          \* arguments of main()
    created_paths,      \* main's list of returned paths (table names)
    gz_index,           \* position of main's compression loop
    gz_files            \* table name -> the .csv.gz file next to its .csv

gvars == <<folder_exists, files, pc, error, gen, args, rng, wrote_header,
           chunk_start, range_stop, product_prob, product_unit_price,
           date_prob, calls, before, prev>>

mvars == <<main_pc, main_args, created_paths, gz_index, gz_files>>

(* ------------------------------ bounds --------------------------------- *)
MaxRows == 3
MaxChunk == 2
MaxSeed == 2
MaxDomain == 2
MaxDays == 3
MaxReruns == 3
MaxRerunRows == 2
MaxGzipMinSize == 5
MaxOverwrites == 2
RngModulus == 64
\* domain sizes and default row counts of main(), scaled down
NUM_CUSTOMERS == 3
NUM_PRODUCTS == 2
NUM_STORES == 2
DefaultRows == 3
DefaultChunk == 2

(* ------------------------- program constants --------------------------- *)
DefaultStartDate == 19723
DefaultSeed == 42
DefaultDays == 366
CustomersDays == 2190
CustomersStartDate == 17897
Date2022 == 18993
Date2023 == 19358
Date2024 == 19723

Tables == {"sales", "customers", "ratings", "products", "transactions", "orders"}

(* ------------------------------ numerics ------------------------------- *)
Min(a, b) == IF a < b THEN a ELSE b
Max(a, b) == IF a > b THEN a ELSE b

\* variant: zero is accepted
negative(x) == x < 0

\* the test `x <= 0` of the argument checks
non_positive(x) == x <= 0

\* np.clip(x, lo, hi)
clip(x, lo, hi) == Max(lo, Min(x, hi))

\* ndarray.round: n / d rounded to the nearest integer, ties to even
\* (n >= 0, d > 0)
RoundDiv(n, d) ==
    LET q == n \div d
        r == n % d
    IN  IF 2 * r < d THEN q
        ELSE IF 2 * r > d THEN q + 1
        ELSE IF q % 2 = 0 THEN q ELSE q + 1

\* x (1e-5 units) rounded to 2 decimals, result in cents
round2(x) == RoundDiv(x, 1000)

\* x (1e-5 units) rounded to 4 decimals, result in 1e-4 units
round4(x) == RoundDiv(x, 10)

\* round(a * b / 100000) for a <= 250000 and b <= 100000 without leaving
\* 32 bits: a = ah * 1000 + al, a * b / 1e5 = ah * b / 100 + al * b / 1e5
MulRound(a, b) ==
    LET ah == a \div 1000
        al == a % 1000
        q1 == (ah * b) \div 100
        r1 == (ah * b) % 100
        q2 == (al * b) \div 100000
        r2 == (al * b) % 100000
        num == r1 * 1000 + r2
    IN  q1 + q2 + RoundDiv(num, 100000)

\* variant: the range starts one late
arange_late(start, stop) == [i \in 1..(stop - start) |-> start + i]

\* np.arange(start, stop)
arange(start, stop) == [i \in 1..(stop - start) |-> start + i - 1]

\* variant: every chunk is given chunk_size rows
chunk_rows_full(chunk_size, remaining) == chunk_size

\* chunk_rows = min(chunk_size, rows still to write)
chunk_rows(chunk_size, remaining) == Min(chunk_size, remaining)

\* variant: every chunk is written with mode 'a'
csv_mode_append(wrote) == "a"

\* variant: every chunk is written with mode 'w'
csv_mode_truncate(wrote) == "w"

\* mode='w' if not wrote_header else 'a'
csv_mode(wrote) == IF ~wrote THEN "w" ELSE "a"

\* variant: every chunk is written with a header
csv_header_always(wrote) == TRUE

\* header=not wrote_header
csv_header(wrote) == ~wrote

\* s[lo] + ... + s[hi], by halving
RECURSIVE SumRange(_, _, _)
SumRange(s, lo, hi) ==
    IF lo > hi THEN 0
    ELSE IF lo = hi THEN s[lo]
    ELSE LET mid == (lo + hi) \div 2
         IN  SumRange(s, lo, mid) + SumRange(s, mid + 1, hi)

\* p.sum()
SumSeq(s) == SumRange(s, 1, Len(s))

(* --------------------------- random generator -------------------------- *)
\* one step of the bit generator
rng_step(s) == (s * 37 + 11) % RngModulus

\* variant: one generator shared by all calls, its state carried over
default_rng_shared(seed) == (seed * 29 + 5 + rng) % RngModulus

\* np.random.default_rng(seed): the state depends on the seed only
default_rng(seed) == (seed * 29 + 5) % RngModulus

\* state after n outputs
RECURSIVE rng_advance(_, _)
rng_advance(s, n) == IF n = 0 THEN s ELSE rng_advance(rng_step(s), n - 1)

\* the i-th output drawn from state s (i >= 1)
rng_out(s, i) == rng_advance(s, i)

\* floor(u * total / RngModulus) without overflow
Scale(u, total) ==
    u * (total \div RngModulus) + (u * (total % RngModulus)) \div RngModulus

\* variant: high is included
rng_integers_closed(s, low, high, size) ==
    [i \in 1..size |-> low + Scale(rng_out(s, i), high - low + 1)]

\* rng.integers(low, high, size): values in [low, high)
rng_integers(s, low, high, size) ==
    [i \in 1..size |-> low + Scale(rng_out(s, i), high - low)]

\* cdf.searchsorted(t, side='right') for cdf = p.cumsum(): the first index
\* in lo..hi whose cumulative weight exceeds t
RECURSIVE CdfSearch(_, _, _, _)
CdfSearch(p, t, lo, hi) ==
    IF lo >= hi THEN lo
    ELSE LET mid == (lo + hi) \div 2
         IN  IF SumRange(p, 1, mid) > t THEN CdfSearch(p, t, lo, mid)
             ELSE CdfSearch(p, t, mid + 1, hi)

CdfIndex(p, t) == CdfSearch(p, t, 1, Len(p))

\* rng.choice(a, size, p=p): p / p.sum() are the probabilities
rng_choice(s, a, p, size) ==
    [i \in 1..size |-> a[CdfIndex(p, Scale(rng_out(s, i), SumSeq(p)))]]

\* samples of the continuous distributions, in 1e-5 units; one table entry
\* per generator output
LognormalSamples == <<321717, 3312500, 15075500, 12045600, 123450000, 41999499>>
BetaSamples == <<0, 3456, 10004, 9091, 70000, 12345>>
ParetoSamples == <<10000, 50000, 300000, 1200000>>
NormalSamples == <<950000, 4120000, 4050000, 8500000, 2350000>>
PoissonSamples == <<0, 37, 50, 64, 1200>>

Pick(table, u) == table[1 + Scale(u, Len(table))]

rng_lognormal(s, size) == [i \in 1..size |-> Pick(LognormalSamples, rng_out(s, i))]
rng_beta(s, size) == [i \in 1..size |-> Pick(BetaSamples, rng_out(s, i))]
rng_pareto(s, size) == [i \in 1..size |-> Pick(ParetoSamples, rng_out(s, i))]
rng_normal(s, size) == [i \in 1..size |-> Pick(NormalSamples, rng_out(s, i))]
rng_poisson(s, size) == [i \in 1..size |-> Pick(PoissonSamples, rng_out(s, i))]
\* rng.random(size) < 0.96
rng_random_lt96(s, size) == [i \in 1..size |-> rng_out(s, i) * 100 < 96 * RngModulus]

(* ------------------------------ calendar ------------------------------- *)
\* ((calendar.astype('datetime64[D]').astype('int64') + 4) % 7)
weekday_of(d) == (d + 4) % 7

\* month (1..12) of day number d (proleptic Gregorian calendar)
month_of(d) ==
    LET z == d + 719468
        era == z \div 146097
        doe == z - era * 146097
        yoe == (doe - doe \div 1460 + doe \div 36524 - doe \div 146096) \div 365
        doy == doe - (365 * yoe + yoe \div 4 - yoe \div 100)
        mp == (5 * doy + 2) \div 153
    IN  IF mp < 10 THEN mp + 3 ELSE mp - 9

\* calendar year of day number d
year_of(d) ==
    LET z == d + 719468
        era == z \div 146097
        doe == z - era * 146097
        yoe == (doe - doe \div 1460 + doe \div 36524 - doe \div 146096) \div 365
        doy == doe - (365 * yoe + yoe \div 4 - yoe \div 100)
        mp == (5 * doy + 2) \div 153
        m == IF mp < 10 THEN mp + 3 ELSE mp - 9
    IN  yoe + era * 400 + (IF m <= 2 THEN 1 ELSE 0)

(* ------------------------------ file system ---------------------------- *)
NoFile == [exists |-> FALSE, lines |-> <<>>]

HeaderLine(cols) == [hdr |-> TRUE, cols |-> cols]

\* DataFrame.to_csv(path, mode=..., header=..., index=False): mode 'w'
\* truncates, mode 'a' appends (and creates a missing file)
to_csv(f, rows, cols, mode, header) ==
    [exists |-> TRUE,
     lines |-> (IF mode = "w" THEN <<>> ELSE f.lines)
               \o (IF header THEN <<HeaderLine(cols)>> ELSE <<>>)
               \o rows]

DataRows(f) == SelectSeq(f.lines, LAMBDA l : ~l.hdr)
HeaderCount(f) == Len(SelectSeq(f.lines, LAMBDA l : l.hdr))

SalesCols == <<"transaction_id", "date", "customer_id", "store_id", "channel",
               "region", "product_id", "quantity", "unit_price",
               "discount_rate", "revenue">>
CustomersCols == <<"customer_id", "age", "purchase_amount", "first_name",
                   "last_name", "email", "phone", "address", "city", "state",
                   "zip_code", "signup_date", "loyalty_tier">>
RatingsCols == <<"user_id", "product_id", "rating", "timestamp">>
ProductsCols == <<"product_id", "category", "price", "stock", "brand",
                  "is_active">>
TransactionsCols == <<"transaction_id", "year", "customer_id", "amount",
                      "product_id", "transaction_date", "payment_method">>
OrdersCols == <<"order_id", "product_id", "quantity", "price", "customer_id",
                "order_date", "store_id", "channel", "status">>

(* ------------------------------ state: Init ---------------------------- *)
\* value of a local that is not bound
Unbound == <<>>

NoArgs == [num_rows |-> 0, chunk_size |-> 0, seed |-> 0, num_products |-> 0,
           num_customers |-> 0, num_stores |-> 0, num_users |-> 0,
           start_customer_id |-> 0, start_date |-> 0, days |-> 0,
           seasonality |-> FALSE, year_prob |-> <<>>]

GenInit ==
    /\ folder_exists \in BOOLEAN
    /\ files = [t \in Tables |-> NoFile]
    /\ pc = "idle"
    /\ error = <<>>
    /\ gen = "none"
    /\ args = NoArgs
    /\ rng = 0
    /\ wrote_header = FALSE
    /\ chunk_start = 0
    /\ range_stop = 0
    /\ product_prob = Unbound
    /\ product_unit_price = Unbound
    /\ date_prob = Unbound
    /\ calls = 0
    /\ before = [folder_exists |-> folder_exists, files |-> files]
    /\ prev = <<>>

NoMainArgs == [create_gzip_copies |-> FALSE, gzip_min_size_mb |-> 0,
               remove_original_csv |-> FALSE]

MainInit ==
    /\ main_pc = "none"
    /\ main_args = NoMainArgs
    /\ created_paths = <<>>
    /\ gz_index = 0
    /\ gz_files = [t \in Tables |-> NoFile]

\* the caller may start a call
Ready == pc \in {"idle", "returned", "raised"}

\* entry of every generator: folder.mkdir(parents=True, exist_ok=True)
Enter(g) ==
    /\ Ready
    /\ gen' = g
    /\ calls' = calls + 1
    /\ before' = [folder_exists |-> folder_exists, files |-> files]
    /\ folder_exists' = TRUE
    /\ prev' = IF pc = "returned"
               THEN Append(prev, [gen |-> gen, args |-> args,
                                  lines |-> files[gen].lines])
               ELSE prev
    /\ UNCHANGED mvars

\* raise ValueError(message) out of the generator; its frame is dropped
Raise(message) ==
    /\ pc' = "raised"
    /\ error' = <<"ValueError", message>>
    /\ args' = NoArgs
    /\ UNCHANGED <<files, rng, wrote_header, chunk_start, range_stop,
                   product_prob, product_unit_price, date_prob>>

\* the generator reaches its chunk loop
StartLoop(a, first, stop, s, pprob, pprice, dprob) ==
    /\ pc' = "loop"
    /\ error' = <<>>
    /\ args' = a
    /\ rng' = s
    /\ wrote_header' = FALSE
    /\ chunk_start' = first
    /\ range_stop' = stop
    /\ product_prob' = pprob
    /\ product_unit_price' = pprice
    /\ date_prob' = dprob
    /\ UNCHANGED files

\* one chunk written with to_csv; wrote_header = True; next loop value
WriteChunk(rows, cols, s) ==
    /\ files' = [files EXCEPT ![gen] =
                    to_csv(@, rows, cols, csv_mode(wrote_header),
                           csv_header(wrote_header))]
    /\ wrote_header' = TRUE
    /\ rng' = s
    /\ chunk_start' = chunk_start + args.chunk_size
    /\ UNCHANGED <<folder_exists, pc, error, gen, args, range_stop,
                   product_prob, product_unit_price, date_prob, calls,
                   before, prev>>
    /\ UNCHANGED mvars

\* the range is exhausted: print the size, return output_path
generator_return ==
    /\ pc = "loop"
    /\ chunk_start >= range_stop
    /\ pc' = "returned"
    /\ UNCHANGED <<folder_exists, files, error, gen, args, rng, wrote_header,
                   chunk_start, range_stop, product_prob, product_unit_price,
                   date_prob, calls, before, prev>>
    /\ UNCHANGED mvars

InLoop(g) == pc = "loop" /\ gen = g /\ chunk_start < range_stop

\* day_index = np.arange(days)
day_index(days) == arange(0, days)

\* variant: the looked-up position also depends on the row's position
take_by_row(arr, idx) ==
    [i \in 1..Len(idx) |-> arr[((idx[i] + i - 1) % Len(arr)) + 1]]

\* arr[idx] for an index array: a negative index counts from the end
take(arr, idx) == [i \in 1..Len(idx) |->
                     arr[(IF idx[i] < 0 THEN idx[i] + Len(arr) ELSE idx[i]) + 1]]
\* arr[idx] raises IndexError
IndexOutside(arr, idx) ==
    \E i \in 1..Len(idx) : idx[i] >= Len(arr) \/ idx[i] < -Len(arr)

(* -------------------------- create_sales_dataset ----------------------- *)
SalesWeekdayWeights == <<95, 95, 100, 102, 108, 115, 112>>
MonthWeights == <<100, 98, 100, 101, 102, 103, 102, 102, 103, 105, 112, 115>>
Regions == <<"North", "NorthEast", "NorthWest", "South", "SouthEast",
             "SouthWest", "East", "West">>
RegionProb == <<18, 8, 7, 18, 8, 7, 17, 17>>
Channels == <<"online", "store", "marketplace">>
ChannelProb == <<55, 35, 10>>

\* weights = weekday_weights[weekday] * month_weights[month - 1]
SalesDateWeights(start_date, days) ==
    [i \in 1..days |->
        SalesWeekdayWeights[weekday_of(start_date + i - 1) + 1]
        * MonthWeights[month_of(start_date + i - 1)]]

\* day offsets of one chunk: uniform when date_prob is None
DayOffsets(s, days, dprob, n) ==
    IF dprob = <<>> THEN rng_integers(s, 0, days, n)
    ELSE rng_choice(s, day_index(days), dprob, n)

create_sales_dataset(a) ==
    /\ Enter("sales")
    /\ IF non_positive(a.num_rows) THEN Raise("num_rows must be > 0")
       ELSE IF non_positive(a.chunk_size) THEN Raise("chunk_size must be > 0")
       ELSE IF non_positive(a.num_products) \/ non_positive(a.num_customers)
               \/ non_positive(a.num_stores)
       THEN Raise("num_products/num_customers/num_stores must be > 0")
       ELSE IF non_positive(a.days) THEN Raise("days must be > 0")
       ELSE LET s0 == default_rng(a.seed)
                popularity == [i \in 1..a.num_products |->
                                 rng_pareto(s0, a.num_products)[i] + 100000]
                s1 == rng_advance(s0, a.num_products)
                price == [i \in 1..a.num_products |->
                            round2(clip(rng_lognormal(s1, a.num_products)[i],
                                        500000, 50000000))]
                s2 == rng_advance(s1, a.num_products)
            IN  StartLoop(a, 1, a.num_rows + 1, s2, popularity, price,
                          IF a.seasonality
                          THEN SalesDateWeights(a.start_date, a.days)
                          ELSE <<>>)

sales_chunk ==
    /\ InLoop("sales")
    /\ LET n == chunk_rows(args.chunk_size, args.num_rows - chunk_start + 1)
           transaction_id == arange(chunk_start, chunk_start + n)
           day_offsets == DayOffsets(rng, args.days, date_prob, n)
           s1 == rng_advance(rng, n)
           product_id == rng_choice(s1, arange(1, args.num_products + 1),
                                    product_prob, n)
           s2 == rng_advance(s1, n)
           customer_id == rng_integers(s2, 1, args.num_customers + 1, n)
           s3 == rng_advance(s2, n)
           store_id == rng_integers(s3, 1, args.num_stores + 1, n)
           s4 == rng_advance(s3, n)
           region == rng_choice(s4, Regions, RegionProb, n)
           s5 == rng_advance(s4, n)
           channel == rng_choice(s5, Channels, ChannelProb, n)
           s6 == rng_advance(s5, n)
           quantity == rng_integers(s6, 1, 6, n)
           s7 == rng_advance(s6, n)
           pidx == [i \in 1..n |-> product_id[i] - 1]
           discount_rate == [i \in 1..n |-> clip(rng_beta(s7, n)[i], 0, 60000)]
           s8 == rng_advance(s7, n)
       IN  IF IndexOutside(product_unit_price, pidx)
           THEN /\ pc' = "raised"
                /\ error' = <<"IndexError", "index out of bounds">>
                /\ rng' = s7
                /\ UNCHANGED <<folder_exists, files, gen, args, wrote_header,
                               chunk_start, range_stop, product_prob,
                               product_unit_price, date_prob, calls, before,
                               prev>>
                /\ UNCHANGED mvars
           ELSE LET unit_price == take(product_unit_price, pidx)
                    rows == [i \in 1..n |->
                        [hdr |-> FALSE,
                         transaction_id |-> transaction_id[i],
                         date |-> args.start_date + day_offsets[i],
                         customer_id |-> customer_id[i],
                         store_id |-> store_id[i],
                         channel |-> channel[i],
                         region |-> region[i],
                         product_id |-> product_id[i],
                         quantity |-> quantity[i],
                         unit_price |-> unit_price[i],
                         discount_rate |-> round4(discount_rate[i]),
                         revenue |-> MulRound(quantity[i] * unit_price[i],
                                              100000 - discount_rate[i])]]
                IN  WriteChunk(rows, SalesCols, s8)

(* ------------------------ create_customers_dataset --------------------- *)
Cities == <<"New York", "Los Angeles", "Chicago", "Houston">>
CityProb == <<35, 25, 20, 20>>
state_by_city(c) ==
    CASE c = "New York" -> "NY"
      [] c = "Los Angeles" -> "CA"
      [] c = "Chicago" -> "IL"
      [] c = "Houston" -> "TX"
Tiers == <<"bronze", "silver", "gold", "platinum">>
TierProb == <<55, 28, 14, 3>>

create_customers_dataset(a) ==
    /\ Enter("customers")
    /\ IF non_positive(a.num_rows) THEN Raise("num_rows must be > 0")
       ELSE IF non_positive(a.chunk_size) THEN Raise("chunk_size must be > 0")
       ELSE IF non_positive(a.start_customer_id)
       THEN Raise("start_customer_id must be > 0")
       ELSE IF non_positive(a.days) THEN Raise("days must be > 0")
       ELSE StartLoop(a, 0, a.num_rows, default_rng(a.seed), Unbound, Unbound,
                      Unbound)

customers_chunk ==
    /\ InLoop("customers")
    /\ LET n == chunk_rows(args.chunk_size, args.num_rows - chunk_start)
           customer_id == arange(args.start_customer_id + chunk_start,
                                 args.start_customer_id + chunk_start + n)
           age == [i \in 1..n |->
                     clip(RoundDiv(rng_normal(rng, n)[i], 100000), 18, 80)]
           s1 == rng_advance(rng, n)
           purchase_amount == [i \in 1..n |->
                round2(clip(rng_lognormal(s1, n)[i], 500000, 50000000))]
           s2 == rng_advance(s1, n)
           signup_day_offsets == rng_integers(s2, 0, args.days, n)
           s3 == rng_advance(s2, n)
           city == rng_choice(s3, Cities, CityProb, n)
           s4 == rng_advance(s3, n)
           phone_suffix == rng_integers(s4, 0, 10000, n)
           s5 == rng_advance(s4, n)
           street_num == rng_integers(s5, 1, 10000, n)
           s6 == rng_advance(s5, n)
           zip_int == rng_integers(s6, 10000, 100000, n)
           s7 == rng_advance(s6, n)
           loyalty_tier == rng_choice(s7, Tiers, TierProb, n)
           s8 == rng_advance(s7, n)
           rows == [i \in 1..n |->
               [hdr |-> FALSE,
                customer_id |-> customer_id[i],
                age |-> age[i],
                purchase_amount |-> purchase_amount[i],
                first_name |-> <<"User", customer_id[i]>>,
                last_name |-> <<"Lastname", customer_id[i]>>,
                email |-> <<"user", customer_id[i], "@example.com">>,
                phone |-> <<"555-", phone_suffix[i]>>,
                address |-> <<street_num[i], " Main St">>,
                city |-> city[i],
                state |-> state_by_city(city[i]),
                zip_code |-> zip_int[i],
                signup_date |-> args.start_date + signup_day_offsets[i],
                loyalty_tier |-> loyalty_tier[i]]]
       IN  WriteChunk(rows, CustomersCols, s8)

(* ------------------------- create_ratings_dataset ---------------------- *)
RatingsWeekdayWeights == <<100, 100, 100, 102, 105, 110, 108>>
RatingValues == <<1, 2, 3, 4, 5>>
RatingProb == <<5, 8, 17, 35, 35>>

\* weekday_weights[weekday]
RatingsDateWeights(start_date, days) ==
    [i \in 1..days |->
        RatingsWeekdayWeights[weekday_of(start_date + i - 1) + 1]]

create_ratings_dataset(a) ==
    /\ Enter("ratings")
    /\ IF non_positive(a.num_rows) THEN Raise("num_rows must be > 0")
       ELSE IF non_positive(a.chunk_size) THEN Raise("chunk_size must be > 0")
       ELSE IF non_positive(a.num_users) \/ non_positive(a.num_products)
       THEN Raise("num_users/num_products must be > 0")
       ELSE IF non_positive(a.days) THEN Raise("days must be > 0")
       ELSE StartLoop(a, 0, a.num_rows, default_rng(a.seed), Unbound, Unbound,
                      IF a.seasonality
                      THEN RatingsDateWeights(a.start_date, a.days)
                      ELSE <<>>)

ratings_chunk ==
    /\ InLoop("ratings")
    /\ LET n == chunk_rows(args.chunk_size, args.num_rows - chunk_start)
           user_id == rng_integers(rng, 1, args.num_users + 1, n)
           s1 == rng_advance(rng, n)
           product_id == rng_integers(s1, 1, args.num_products + 1, n)
           s2 == rng_advance(s1, n)
           rating == rng_choice(s2, RatingValues, RatingProb, n)
           s3 == rng_advance(s2, n)
           day_offsets == DayOffsets(s3, args.days, date_prob, n)
           s4 == rng_advance(s3, n)
           seconds == rng_integers(s4, 0, 24 * 60 * 60, n)
           s5 == rng_advance(s4, n)
           rows == [i \in 1..n |->
               [hdr |-> FALSE,
                user_id |-> user_id[i],
                product_id |-> product_id[i],
                rating |-> rating[i],
                timestamp |-> [day |-> args.start_date + day_offsets[i],
                               second |-> seconds[i]]]]
       IN  WriteChunk(rows, RatingsCols, s5)

(* ------------------------ create_products_dataset ---------------------- *)
Categories == <<"Electronics", "Clothing", "Home & Garden", "Sports", "Books",
                "Toys", "Food", "Beauty", "Automotive", "Health",
                "Office", "Pet Supplies", "Baby", "Jewelry", "Tools",
                "Music", "Movies", "Games", "Crafts", "Outdoor">>
CategoryProb == <<12, 10, 8, 6, 5, 5, 6, 5, 4, 5,
                  4, 4, 3, 3, 4, 4, 3, 4, 3, 7>>
Brands == <<"Acme", "Contoso", "Globex", "Umbrella", "Initech", "Soylent",
            "Stark", "Wayne">>
BrandProb == <<22, 18, 14, 10, 10, 8, 10, 8>>

create_products_dataset(a) ==
    /\ Enter("products")
    /\ IF non_positive(a.num_rows) THEN Raise("num_rows must be > 0")
       ELSE IF non_positive(a.chunk_size) THEN Raise("chunk_size must be > 0")
       ELSE StartLoop(a, 0, a.num_rows, default_rng(a.seed), Unbound, Unbound,
                      Unbound)

products_chunk ==
    /\ InLoop("products")
    /\ LET n == chunk_rows(args.chunk_size, args.num_rows - chunk_start)
           product_id == arange(1 + chunk_start, 1 + chunk_start + n)
           category == rng_choice(rng, Categories, CategoryProb, n)
           s1 == rng_advance(rng, n)
           brand == rng_choice(s1, Brands, BrandProb, n)
           s2 == rng_advance(s1, n)
           price == [i \in 1..n |->
                       round2(clip(rng_lognormal(s2, n)[i], 500000, 50000000))]
           s3 == rng_advance(s2, n)
           stock == [i \in 1..n |-> clip(rng_poisson(s3, n)[i], 0, 1000)]
           s4 == rng_advance(s3, n)
           is_active == rng_random_lt96(s4, n)
           s5 == rng_advance(s4, n)
           rows == [i \in 1..n |->
               [hdr |-> FALSE,
                product_id |-> product_id[i],
                category |-> category[i],
                price |-> price[i],
                stock |-> stock[i],
                brand |-> brand[i],
                is_active |-> IF is_active[i] THEN 1 ELSE 0]]
       IN  WriteChunk(rows, ProductsCols, s5)

(* ---------------------- create_transactions_dataset -------------------- *)
Years == <<2022, 2023, 2024>>
PaymentMethods == <<"card", "cash", "paypal", "bank_transfer">>
PaymentProb == <<62, 12, 18, 8>>
\* variant: every year's offsets are counted from the start of the window
year_start_window(y) == Date2022

\* year_start[y]
year_start(y) == CASE y = 2022 -> Date2022 [] y = 2023 -> Date2023
                   [] y = 2024 -> Date2024
year_days(y) == CASE y = 2022 -> 365 [] y = 2023 -> 365 [] y = 2024 -> 366

\* content of an np.empty(...) cell that was never assigned: a marker that
\* is the day number of no date
Uninitialized == -2147483647

\* mask.sum() for mask = (year == y)
MaskCount(year, y) == Cardinality({i \in 1..Len(year) : year[i] = y})

\* arr[mask] = base + offsets: the k-th True cell of the mask gets offsets[k]
AssignMasked(arr, year, y, base, offsets) ==
    [i \in 1..Len(arr) |->
        IF year[i] = y
        THEN base + offsets[Cardinality({j \in 1..i : year[j] = y})]
        ELSE arr[i]]

create_transactions_dataset(a) ==
    /\ Enter("transactions")
    /\ IF non_positive(a.num_rows) THEN Raise("num_rows must be > 0")
       ELSE IF non_positive(a.chunk_size) THEN Raise("chunk_size must be > 0")
       ELSE IF non_positive(a.num_customers) \/ non_positive(a.num_products)
       THEN Raise("num_customers/num_products must be > 0")
       ELSE IF Len(a.year_prob) # 3
       THEN Raise("year_prob must have 3 elements for years 2022/2023/2024")
       ELSE StartLoop(a, 0, a.num_rows, default_rng(a.seed), Unbound, Unbound,
                      Unbound)

transactions_chunk ==
    /\ InLoop("transactions")
    /\ LET n == chunk_rows(args.chunk_size, args.num_rows - chunk_start)
           transaction_id == arange(1 + chunk_start, 1 + chunk_start + n)
           year == rng_choice(rng, Years, args.year_prob, n)
           s1 == rng_advance(rng, n)
           customer_id == rng_integers(s1, 1, args.num_customers + 1, n)
           s2 == rng_advance(s1, n)
           product_id == rng_integers(s2, 1, args.num_products + 1, n)
           s3 == rng_advance(s2, n)
           amount == [i \in 1..n |->
                round2(clip(rng_lognormal(s3, n)[i], 1000000, 100000000))]
           s4 == rng_advance(s3, n)
           date0 == [i \in 1..n |-> Uninitialized]
           c22 == MaskCount(year, 2022)
           date1 == AssignMasked(date0, year, 2022, year_start(2022),
                                 rng_integers(s4, 0, year_days(2022), c22))
           s5 == rng_advance(s4, c22)
           c23 == MaskCount(year, 2023)
           date2 == AssignMasked(date1, year, 2023, year_start(2023),
                                 rng_integers(s5, 0, year_days(2023), c23))
           s6 == rng_advance(s5, c23)
           c24 == MaskCount(year, 2024)
           transaction_date ==
                    AssignMasked(date2, year, 2024, year_start(2024),
                                 rng_integers(s6, 0, year_days(2024), c24))
           s7 == rng_advance(s6, c24)
           payment_method == rng_choice(s7, PaymentMethods, PaymentProb, n)
           s8 == rng_advance(s7, n)
           rows == [i \in 1..n |->
               [hdr |-> FALSE,
                transaction_id |-> transaction_id[i],
                year |-> year[i],
                customer_id |-> customer_id[i],
                amount |-> amount[i],
                product_id |-> product_id[i],
                transaction_date |-> transaction_date[i],
                payment_method |-> payment_method[i]]]
       IN  WriteChunk(rows, TransactionsCols, s8)

(* -------------------------- create_orders_dataset ---------------------- *)
Statuses == <<"paid", "shipped", "delivered", "returned", "cancelled">>
StatusProb == <<18, 20, 55, 4, 3>>

\* weights = weekday_weights[weekday]
OrdersDateWeights(start_date, days) ==
    [i \in 1..days |->
        SalesWeekdayWeights[weekday_of(start_date + i - 1) + 1]]

create_orders_dataset(a) ==
    /\ Enter("orders")
    /\ IF non_positive(a.num_rows) THEN Raise("num_rows must be > 0")
       ELSE IF non_positive(a.chunk_size) THEN Raise("chunk_size must be > 0")
       ELSE IF non_positive(a.num_products) \/ non_positive(a.num_customers)
               \/ non_positive(a.num_stores)
       THEN Raise("num_products/num_customers/num_stores must be > 0")
       ELSE IF non_positive(a.days) THEN Raise("days must be > 0")
       ELSE LET s0 == default_rng(a.seed)
                popularity == [i \in 1..a.num_products |->
                                 rng_pareto(s0, a.num_products)[i] + 100000]
                s1 == rng_advance(s0, a.num_products)
                price == [i \in 1..a.num_products |->
                            round2(clip(rng_lognormal(s1, a.num_products)[i],
                                        1000000, 50000000))]
                s2 == rng_advance(s1, a.num_products)
            IN  StartLoop(a, 0, a.num_rows, s2, popularity, price,
                          IF a.seasonality
                          THEN OrdersDateWeights(a.start_date, a.days)
                          ELSE <<>>)

orders_chunk ==
    /\ InLoop("orders")
    /\ LET n == chunk_rows(args.chunk_size, args.num_rows - chunk_start)
           order_id == arange(1 + chunk_start, 1 + chunk_start + n)
           product_id == rng_choice(rng, arange(1, args.num_products + 1),
                                    product_prob, n)
           s1 == rng_advance(rng, n)
           quantity == rng_integers(s1, 1, 10, n)
           s2 == rng_advance(s1, n)
           pidx == [i \in 1..n |-> product_id[i] - 1]
           customer_id == rng_integers(s2, 1, args.num_customers + 1, n)
           s3 == rng_advance(s2, n)
           store_id == rng_integers(s3, 1, args.num_stores + 1, n)
           s4 == rng_advance(s3, n)
           channel == rng_choice(s4, Channels, ChannelProb, n)
           s5 == rng_advance(s4, n)
           status == rng_choice(s5, Statuses, StatusProb, n)
           s6 == rng_advance(s5, n)
           day_offsets == DayOffsets(s6, args.days, date_prob, n)
           s7 == rng_advance(s6, n)
       IN  IF IndexOutside(product_unit_price, pidx)
           THEN /\ pc' = "raised"
                /\ error' = <<"IndexError", "index out of bounds">>
                /\ rng' = s2
                /\ UNCHANGED <<folder_exists, files, gen, args, wrote_header,
                               chunk_start, range_stop, product_prob,
                               product_unit_price, date_prob, calls, before,
                               prev>>
                /\ UNCHANGED mvars
           ELSE LET unit_price == take(product_unit_price, pidx)
                    rows == [i \in 1..n |->
                        [hdr |-> FALSE,
                         order_id |-> order_id[i],
                         product_id |-> product_id[i],
                         quantity |-> quantity[i],
                         price |-> unit_price[i] * quantity[i],
                         customer_id |-> customer_id[i],
                         order_date |-> args.start_date + day_offsets[i],
                         store_id |-> store_id[i],
                         channel |-> channel[i],
                         status |-> status[i]]]
                IN  WriteChunk(rows, OrdersCols, s7)

(* ------------- one call on a folder that holds no output yet ---------- *)
NumRowsArgs == 0..MaxRows
ChunkArgs == 0..MaxChunk
SeedArgs == 1..MaxSeed
DomainArgs == {0, MaxDomain}
DaysArgs == {0, MaxDays}
YearProbArgs == {<<30, 30, 40>>, <<50, 50>>}

SalesArgs ==
    {[NoArgs EXCEPT !.num_rows = r, !.chunk_size = c, !.seed = sd,
                    !.num_products = np, !.num_customers = nc,
                    !.num_stores = ns, !.start_date = DefaultStartDate,
                    !.days = d, !.seasonality = se] :
        r \in NumRowsArgs, c \in ChunkArgs, sd \in SeedArgs,
        np \in DomainArgs, nc \in DomainArgs, ns \in DomainArgs,
        d \in DaysArgs, se \in BOOLEAN}

CustomersArgs ==
    {[NoArgs EXCEPT !.num_rows = r, !.chunk_size = c, !.seed = sd,
                    !.start_customer_id = sc,
                    !.start_date = CustomersStartDate, !.days = d] :
        r \in NumRowsArgs, c \in ChunkArgs, sd \in SeedArgs,
        sc \in 0..MaxDomain, d \in DaysArgs}

RatingsArgs ==
    {[NoArgs EXCEPT !.num_rows = r, !.chunk_size = c, !.seed = sd,
                    !.num_users = nu, !.num_products = np,
                    !.start_date = DefaultStartDate,
                    !.days = d, !.seasonality = se] :
        r \in NumRowsArgs, c \in ChunkArgs, sd \in SeedArgs,
        nu \in DomainArgs, np \in DomainArgs,
        d \in DaysArgs, se \in BOOLEAN}

ProductsArgs ==
    {[NoArgs EXCEPT !.num_rows = r, !.chunk_size = c, !.seed = sd] :
        r \in NumRowsArgs, c \in ChunkArgs, sd \in SeedArgs}

TransactionsArgs ==
    {[NoArgs EXCEPT !.num_rows = r, !.chunk_size = c, !.seed = sd,
                    !.num_customers = nc, !.num_products = np,
                    !.year_prob = yp] :
        r \in NumRowsArgs, c \in ChunkArgs, sd \in SeedArgs,
        nc \in DomainArgs, np \in DomainArgs, yp \in YearProbArgs}

OrdersArgs == SalesArgs

call_sales == calls = 0 /\ \E a \in SalesArgs : create_sales_dataset(a)
call_customers ==
    calls = 0 /\ \E a \in CustomersArgs : create_customers_dataset(a)
call_ratings ==
    calls = 0 /\ \E a \in RatingsArgs : create_ratings_dataset(a)
call_products ==
    calls = 0 /\ \E a \in ProductsArgs : create_products_dataset(a)
call_transactions ==
    calls = 0
    /\ \E a \in TransactionsArgs : create_transactions_dataset(a)
call_orders == calls = 0 /\ \E a \in OrdersArgs : create_orders_dataset(a)

Init == GenInit /\ MainInit

vars == <<gvars, mvars>>

Next ==
    \/ call_sales
    \/ call_customers
    \/ call_ratings
    \/ call_products
    \/ call_transactions
    \/ call_orders
    \/ sales_chunk
    \/ customers_chunk
    \/ ratings_chunk
    \/ products_chunk
    \/ transactions_chunk
    \/ orders_chunk
    \/ generator_return

Spec == Init /\ [][Next]_vars

(* ------------- repeated calls on the same destination folder ----------- *)
\* valid arguments: one seed, one num_rows, chunk_size varies
RerunBase(r, c) ==
    [NoArgs EXCEPT !.num_rows = r, !.chunk_size = c, !.seed = MaxSeed,
                   !.num_products = MaxDomain, !.num_customers = MaxDomain,
                   !.num_stores = MaxDomain, !.num_users = MaxDomain,
                   !.start_customer_id = 1,
                   !.start_date = DefaultStartDate, !.days = MaxDays,
                   !.seasonality = TRUE, !.year_prob = <<30, 30, 40>>]

RerunValidArgs == {RerunBase(MaxRerunRows, c) : c \in {1, MaxRerunRows}}

\* the valid arguments and, per parameter, one call with that parameter
\* invalid
BadRows == {[RerunBase(1, 1) EXCEPT !.num_rows = 0],
            [RerunBase(1, 1) EXCEPT !.num_rows = -1],
            [RerunBase(1, 1) EXCEPT !.chunk_size = 0]}
BadProducts == {[RerunBase(1, 1) EXCEPT !.num_products = 0]}
BadCustomers == {[RerunBase(1, 1) EXCEPT !.num_customers = 0]}
BadStores == {[RerunBase(1, 1) EXCEPT !.num_stores = 0]}
BadUsers == {[RerunBase(1, 1) EXCEPT !.num_users = 0]}
BadDays == {[RerunBase(1, 1) EXCEPT !.days = 0]}
BadStartId == {[RerunBase(1, 1) EXCEPT !.start_customer_id = 0]}
BadYearProb == {[RerunBase(1, 1) EXCEPT !.year_prob = <<50, 50>>],
                [RerunBase(1, 1) EXCEPT !.year_prob = <<25, 25, 25, 25>>]}

RerunSalesArgs == RerunValidArgs \cup BadRows \cup BadProducts
                  \cup BadCustomers \cup BadStores \cup BadDays
RerunCustomersArgs == RerunValidArgs \cup BadRows \cup BadStartId \cup BadDays
RerunRatingsArgs == RerunValidArgs \cup BadRows \cup BadUsers
                    \cup BadProducts \cup BadDays
RerunProductsArgs == RerunValidArgs \cup BadRows
RerunTransactionsArgs == RerunValidArgs \cup BadRows \cup BadCustomers
                         \cup BadProducts \cup BadYearProb
RerunOrdersArgs == RerunSalesArgs

rerun_sales ==
    calls < MaxReruns /\ \E a \in RerunSalesArgs : create_sales_dataset(a)
rerun_customers ==
    calls < MaxReruns
    /\ \E a \in RerunCustomersArgs : create_customers_dataset(a)
rerun_ratings ==
    calls < MaxReruns /\ \E a \in RerunRatingsArgs : create_ratings_dataset(a)
rerun_products ==
    calls < MaxReruns /\ \E a \in RerunProductsArgs : create_products_dataset(a)
rerun_transactions ==
    calls < MaxReruns
    /\ \E a \in RerunTransactionsArgs : create_transactions_dataset(a)
rerun_orders ==
    calls < MaxReruns /\ \E a \in RerunOrdersArgs : create_orders_dataset(a)

NextRerun ==
    \/ rerun_sales
    \/ rerun_customers
    \/ rerun_ratings
    \/ rerun_products
    \/ rerun_transactions
    \/ rerun_orders
    \/ sales_chunk
    \/ customers_chunk
    \/ ratings_chunk
    \/ products_chunk
    \/ transactions_chunk
    \/ orders_chunk
    \/ generator_return

SpecRerun == Init /\ [][NextRerun]_vars

(* --------------------------------- main -------------------------------- *)
\* gzip stream of a byte content, and its inverse
gzip_compress(lines) == [gzip |-> lines]
gzip_decompress(z) == z.gzip

\* path.stat().st_size / 1024**2, one line counted as one megabyte
size_mb(f) == Len(f.lines)

\* path.suffix.lower(): every generator is called with its default csv_file
suffix(t) == ".csv"

\* arguments main() passes to the generators; the rest are the defaults
MainDefaults ==
    [NoArgs EXCEPT !.num_rows = DefaultRows, !.chunk_size = DefaultChunk,
                   !.seed = DefaultSeed, !.start_customer_id = 1,
                   !.start_date = DefaultStartDate, !.days = DefaultDays,
                   !.seasonality = TRUE, !.year_prob = <<30, 30, 40>>]
MainSalesArgs ==
    [MainDefaults EXCEPT !.num_customers = NUM_CUSTOMERS,
                         !.num_products = NUM_PRODUCTS,
                         !.num_stores = NUM_STORES]
MainCustomersArgs ==
    [MainDefaults EXCEPT !.num_rows = NUM_CUSTOMERS,
                         !.start_date = CustomersStartDate,
                         !.days = CustomersDays]
MainRatingsArgs ==
    [MainDefaults EXCEPT !.num_users = NUM_CUSTOMERS,
                         !.num_products = NUM_PRODUCTS]
\* variant: the catalog is one product short
MainProductsArgsShort == [MainDefaults EXCEPT !.num_rows = NUM_PRODUCTS - 1]

MainProductsArgs == [MainDefaults EXCEPT !.num_rows = NUM_PRODUCTS]
MainTransactionsArgs ==
    [MainDefaults EXCEPT !.num_customers = NUM_CUSTOMERS,
                         !.num_products = NUM_PRODUCTS]
MainOrdersArgs ==
    [MainDefaults EXCEPT !.num_customers = NUM_CUSTOMERS,
                         !.num_products = NUM_PRODUCTS,
                         !.num_stores = NUM_STORES]

MainArgs ==
    [create_gzip_copies : BOOLEAN, gzip_min_size_mb : 0..MaxGzipMinSize,
     remove_original_csv : BOOLEAN]

\* main(folder, create_gzip_copies=..., ...) is entered
main_start ==
    /\ main_pc = "none"
    /\ calls = 0
    /\ pc = "idle"
    /\ \E m \in MainArgs : main_args' = m
    /\ main_pc' = "generate"
    /\ UNCHANGED <<created_paths, gz_index, gz_files>>
    /\ UNCHANGED gvars

\* the next element of the created_paths list literal is evaluated
main_call ==
    /\ main_pc = "generate"
    /\ pc = "idle"
    /\ Len(created_paths) < 6
    /\ CASE Len(created_paths) = 0 -> create_sales_dataset(MainSalesArgs)
         [] Len(created_paths) = 1 -> create_customers_dataset(MainCustomersArgs)
         [] Len(created_paths) = 2 -> create_ratings_dataset(MainRatingsArgs)
         [] Len(created_paths) = 3 -> create_products_dataset(MainProductsArgs)
         [] Len(created_paths) = 4 ->
                create_transactions_dataset(MainTransactionsArgs)
         [] Len(created_paths) = 5 -> create_orders_dataset(MainOrdersArgs)

\* the generator returned its output_path
main_collect ==
    /\ main_pc = "generate"
    /\ pc = "returned"
    /\ created_paths' = Append(created_paths, gen)
    /\ pc' = "idle"
    /\ UNCHANGED <<main_pc, main_args, gz_index, gz_files>>
    /\ UNCHANGED <<folder_exists, files, error, gen, args, rng, wrote_header,
                   chunk_start, range_stop, product_prob, product_unit_price,
                   date_prob, calls, before, prev>>

\* variant: the compression loop runs whatever create_gzip_copies is
main_begin_gzip_always ==
    /\ main_pc = "generate"
    /\ pc = "idle"
    /\ Len(created_paths) = 6
    /\ main_pc' = "gzip"
    /\ gz_index' = 1
    /\ UNCHANGED <<main_args, created_paths, gz_files>>
    /\ UNCHANGED gvars

\* created_paths is complete: if create_gzip_copies: for path in created_paths
main_begin_gzip ==
    /\ main_pc = "generate"
    /\ pc = "idle"
    /\ Len(created_paths) = 6
    /\ main_pc' = IF main_args.create_gzip_copies THEN "gzip" ELSE "done"
    /\ gz_index' = 1
    /\ UNCHANGED <<main_args, created_paths, gz_files>>
    /\ UNCHANGED gvars

\* _gzip_csv_copy(csv_path, remove_original=...): the .gz file written by
\* the streamed copy, and the .csv file afterwards
gzip_copy_gz(f) == [exists |-> TRUE, lines |-> gzip_compress(f.lines)]
\* variant: the original is unlinked whatever remove_original is
gzip_copy_csv_always(f, remove_original) == NoFile

\* the .csv file after _gzip_csv_copy
gzip_copy_csv(f, remove_original) == IF remove_original THEN NoFile ELSE f

\* one iteration of the compression loop
main_gzip_path ==
    /\ main_pc = "gzip"
    /\ gz_index <= Len(created_paths)
    /\ LET path == created_paths[gz_index]
       IN  IF \/ ~files[path].exists
              \/ suffix(path) # ".csv"
              \/ size_mb(files[path]) < main_args.gzip_min_size_mb
           THEN UNCHANGED <<files, gz_files>>
           ELSE /\ gz_files' = [gz_files EXCEPT ![path] =
                                    gzip_copy_gz(files[path])]
                /\ files' = [files EXCEPT ![path] =
                    gzip_copy_csv(@, main_args.remove_original_csv)]
    /\ gz_index' = gz_index + 1
    /\ UNCHANGED <<main_pc, main_args, created_paths>>
    /\ UNCHANGED <<folder_exists, pc, error, gen, args, rng, wrote_header,
                   chunk_start, range_stop, product_prob, product_unit_price,
                   date_prob, calls, before, prev>>

\* the loop is over: the summary is printed and main returns
main_finish ==
    /\ main_pc = "gzip"
    /\ gz_index > Len(created_paths)
    /\ main_pc' = "done"
    /\ UNCHANGED <<main_args, created_paths, gz_index, gz_files>>
    /\ UNCHANGED gvars

NextMain ==
    \/ main_start
    \/ main_call
    \/ main_collect
    \/ main_begin_gzip
    \/ main_gzip_path
    \/ main_finish
    \/ sales_chunk
    \/ customers_chunk
    \/ ratings_chunk
    \/ products_chunk
    \/ transactions_chunk
    \/ orders_chunk
    \/ generator_return

SpecMain == Init /\ [][NextMain]_vars

(* ---------------------- main with a failing environment --------------- *)
\* chunk_df.to_csv(...) raises OSError: the file is left as it was, or, when
\* it was opened with mode 'w', truncated to nothing; the exception leaves
\* the generator
to_csv_raises ==
    /\ pc = "loop"
    /\ chunk_start < range_stop
    /\ \E truncated \in (IF csv_mode(wrote_header) = "w" THEN BOOLEAN
                         ELSE {FALSE}) :
          files' = [files EXCEPT ![gen] =
                       IF truncated THEN [exists |-> TRUE, lines |-> <<>>]
                       ELSE @]
    /\ pc' = "raised"
    /\ error' = <<"OSError", "to_csv">>
    /\ UNCHANGED <<folder_exists, gen, args, rng, wrote_header, chunk_start,
                   range_stop, product_prob, product_unit_price, date_prob,
                   calls, before, prev>>
    /\ UNCHANGED mvars

\* variant: main catches the exception and goes on with the next generator
main_raise_caught ==
    /\ main_pc = "generate"
    /\ pc = "raised"
    /\ created_paths' = Append(created_paths, gen)
    /\ pc' = "idle"
    /\ UNCHANGED <<main_pc, main_args, gz_index, gz_files>>
    /\ UNCHANGED <<folder_exists, files, error, gen, args, rng, wrote_header,
                   chunk_start, range_stop, product_prob, product_unit_price,
                   date_prob, calls, before, prev>>

\* an exception of a generator is not caught in main: the list literal is
\* abandoned and main ends with that exception
main_raise ==
    /\ main_pc = "generate"
    /\ pc = "raised"
    /\ main_pc' = "raised"
    /\ UNCHANGED <<main_args, created_paths, gz_index, gz_files>>
    /\ UNCHANGED gvars

\* another process removes a produced file that the compression loop has not
\* reached yet
external_unlink ==
    /\ main_pc = "gzip"
    /\ \E i \in gz_index..Len(created_paths) :
          /\ files[created_paths[i]].exists
          /\ files' = [files EXCEPT ![created_paths[i]] = NoFile]
    /\ UNCHANGED <<folder_exists, pc, error, gen, args, rng, wrote_header,
                   chunk_start, range_stop, product_prob, product_unit_price,
                   date_prob, calls, before, prev>>
    /\ UNCHANGED mvars

\* _gzip_csv_copy raises inside its with block: the .gz file is missing
\* (an open failed) or holds the part copied so far; the unlink is not
\* reached and the exception ends main
gzip_copy_raises ==
    /\ main_pc = "gzip"
    /\ gz_index <= Len(created_paths)
    /\ LET path == created_paths[gz_index]
       IN  /\ files[path].exists
           /\ suffix(path) = ".csv"
           /\ ~(size_mb(files[path]) < main_args.gzip_min_size_mb)
           /\ \/ UNCHANGED gz_files
              \/ \E k \in 0..(Len(files[path].lines) - 1) :
                    gz_files' = [gz_files EXCEPT ![path] =
                        gzip_copy_gz([exists |-> TRUE,
                                      lines |-> SubSeq(files[path].lines, 1, k)])]
    /\ main_pc' = "raised"
    /\ error' = <<"OSError", "_gzip_csv_copy">>
    /\ UNCHANGED <<main_args, created_paths, gz_index>>
    /\ UNCHANGED <<folder_exists, files, pc, gen, args, rng, wrote_header,
                   chunk_start, range_stop, product_prob, product_unit_price,
                   date_prob, calls, before, prev>>

NextMainFault ==
    \/ main_start
    \/ main_call
    \/ main_collect
    \/ main_raise
    \/ main_begin_gzip
    \/ main_gzip_path
    \/ main_finish
    \/ sales_chunk
    \/ customers_chunk
    \/ ratings_chunk
    \/ products_chunk
    \/ transactions_chunk
    \/ orders_chunk
    \/ generator_return
    \/ to_csv_raises
    \/ external_unlink
    \/ gzip_copy_raises

SpecMainFault == Init /\ [][NextMainFault]_vars

(* ------------- calls on a folder that holds earlier output ------------- *)
\* valid arguments with a small and a large num_rows and chunk_size
OverwriteArgs ==
    {RerunBase(r, c) : r \in {1, MaxRows}, c \in {1, MaxChunk}}

overwrite_sales ==
    calls < MaxOverwrites /\ \E a \in OverwriteArgs : create_sales_dataset(a)
overwrite_customers ==
    calls < MaxOverwrites
    /\ \E a \in OverwriteArgs : create_customers_dataset(a)
overwrite_ratings ==
    calls < MaxOverwrites /\ \E a \in OverwriteArgs : create_ratings_dataset(a)
overwrite_products ==
    calls < MaxOverwrites /\ \E a \in OverwriteArgs : create_products_dataset(a)
overwrite_transactions ==
    calls < MaxOverwrites
    /\ \E a \in OverwriteArgs : create_transactions_dataset(a)
overwrite_orders ==
    calls < MaxOverwrites /\ \E a \in OverwriteArgs : create_orders_dataset(a)

\* the calls may be cut short by a failing to_csv, which leaves a partial
\* file behind
NextOverwrite ==
    \/ overwrite_sales
    \/ overwrite_customers
    \/ overwrite_ratings
    \/ overwrite_products
    \/ overwrite_transactions
    \/ overwrite_orders
    \/ sales_chunk
    \/ customers_chunk
    \/ ratings_chunk
    \/ products_chunk
    \/ transactions_chunk
    \/ orders_chunk
    \/ generator_return
    \/ to_csv_raises

SpecOverwrite == Init /\ [][NextOverwrite]_vars

(* ------------------------------ properties ----------------------------- *)
\* the file the current call writes, and its data rows
Output == files[gen]
OutputRows == DataRows(files[gen])

\* C1: when a generator call has returned, its output file holds exactly
\* num_rows data rows, whatever num_rows and chunk_size are.
C1_RowCount == pc = "returned" => Len(OutputRows) = args.num_rows

\* a returned call whose num_rows is not a multiple of chunk_size and needs
\* more than one chunk
C1_Witness ==
    /\ pc = "returned"
    /\ args.num_rows > args.chunk_size
    /\ args.num_rows % args.chunk_size # 0
    /\ Len(OutputRows) = args.num_rows

Header(g) ==
    CASE g = "sales" -> SalesCols
      [] g = "customers" -> CustomersCols
      [] g = "ratings" -> RatingsCols
      [] g = "products" -> ProductsCols
      [] g = "transactions" -> TransactionsCols
      [] g = "orders" -> OrdersCols

\* C2: in every state every output file holds the header line at most once,
\* a file that holds a data row starts with the header, and after the call
\* has returned its file holds the header exactly once.
C2_HeaderOnce ==
    /\ \A t \in Tables :
          /\ HeaderCount(files[t]) <= 1
          /\ Len(DataRows(files[t])) > 0 => files[t].lines[1].hdr
    /\ pc = "returned" =>
          /\ HeaderCount(Output) = 1
          /\ Output.lines[1] = HeaderLine(Header(gen))

\* a returned call that wrote MaxRows chunks of one row
C2_Witness ==
    /\ pc = "returned"
    /\ args.chunk_size = 1
    /\ args.num_rows = MaxRows
    /\ Len(Output.lines) = MaxRows + 1
    /\ HeaderCount(Output) = 1

IdColumn(g, row) ==
    CASE g = "sales" -> row.transaction_id
      [] g = "customers" -> row.customer_id
      [] g = "products" -> row.product_id
      [] g = "transactions" -> row.transaction_id
      [] g = "orders" -> row.order_id

FirstId == IF gen = "customers" THEN args.start_customer_id ELSE 1

\* C3: in the finished file of every table with a contiguous identifier
\* column, the identifiers read top to bottom are first, first + 1, ...,
\* first + num_rows - 1.
C3_ContiguousIds ==
    (pc = "returned" /\ gen # "ratings") =>
        /\ Len(OutputRows) = args.num_rows
        /\ \A i \in 1..Len(OutputRows) :
              IdColumn(gen, OutputRows[i]) = FirstId + i - 1

\* a customers file in three rows and two chunks, identifiers from 2 on
C3_Witness ==
    /\ pc = "returned"
    /\ gen = "customers"
    /\ args.start_customer_id = 2
    /\ args.num_rows = 3
    /\ args.chunk_size = 2
    /\ OutputRows[3].customer_id = 4

InDomain(g, a, row) ==
    CASE g = "sales" -> /\ row.product_id \in 1..a.num_products
                        /\ row.customer_id \in 1..a.num_customers
                        /\ row.store_id \in 1..a.num_stores
      [] g = "ratings" -> /\ row.user_id \in 1..a.num_users
                          /\ row.product_id \in 1..a.num_products
      [] g = "transactions" -> /\ row.customer_id \in 1..a.num_customers
                               /\ row.product_id \in 1..a.num_products
      [] g = "orders" -> /\ row.product_id \in 1..a.num_products
                         /\ row.customer_id \in 1..a.num_customers
                         /\ row.store_id \in 1..a.num_stores
      [] OTHER -> TRUE

\* C4: every sampled identifier the current call has written lies in
\* 1..N for its domain size N, and no call ends in an IndexError of the
\* price table lookup.
C4_DomainBounds ==
    /\ (pc \in {"loop", "returned"} /\ wrote_header) =>
          \A i \in 1..Len(OutputRows) : InDomain(gen, args, OutputRows[i])
    /\ error # <<>> => error[1] # "IndexError"

\* a finished sales file that uses both ends of the product and customer
\* domains
C4_Witness ==
    /\ pc = "returned"
    /\ gen = "sales"
    /\ args.num_products > 1
    /\ \E i, j \in 1..Len(OutputRows) :
          /\ OutputRows[i].product_id = 1
          /\ OutputRows[j].product_id = args.num_products
    /\ \E i, j \in 1..Len(OutputRows) :
          /\ OutputRows[i].customer_id = 1
          /\ OutputRows[j].customer_id = args.num_customers

\* C5: a call that returns after an earlier call of the same generator with
\* the same arguments (seed included) has written the same file content,
\* whatever calls were made before or between the two.
C5_Deterministic ==
    pc = "returned" =>
        \A i \in 1..Len(prev) :
            (prev[i].gen = gen /\ prev[i].args = args)
                => prev[i].lines = Output.lines

\* the third call repeats the first, another generator ran between them
C5_Witness ==
    /\ pc = "returned"
    /\ Len(prev) = 2
    /\ prev[1].gen = gen
    /\ prev[1].args = args
    /\ prev[2].gen # gen
    /\ prev[1].lines = Output.lines
    /\ Len(OutputRows) > 1

\* C6: a call that returns after an earlier call of the same generator whose
\* arguments differ in chunk_size only has written the same file content.
C6_ChunkSizeIrrelevant ==
    pc = "returned" =>
        \A i \in 1..Len(prev) :
            (/\ prev[i].gen = gen
             /\ [prev[i].args EXCEPT !.chunk_size = args.chunk_size] = args)
                => prev[i].lines = Output.lines

ValidArgs(g, a) ==
    /\ a.num_rows > 0
    /\ a.chunk_size > 0
    /\ g \in {"sales", "orders"} =>
          a.num_products > 0 /\ a.num_customers > 0 /\ a.num_stores > 0
                             /\ a.days > 0
    /\ g = "customers" => a.days > 0
    /\ g = "ratings" => a.num_users > 0 /\ a.num_products > 0 /\ a.days > 0
    /\ g = "transactions" =>
          a.num_customers > 0 /\ a.num_products > 0 /\ Len(a.year_prob) = 3

\* C7: a call reaches its chunk loop only with a positive num_rows,
\* chunk_size, domain sizes and days and a 3-element year_prob; every other
\* call ends in a ValueError and leaves every file as it was before the
\* call (absent files stay absent).
C7_InvalidRejected ==
    /\ pc \in {"loop", "returned"} => ValidArgs(gen, args)
    /\ pc = "raised" => error[1] = "ValueError" /\ files = before.files

\* a transactions call rejected for its year_prob while its file existed
C7_Witness ==
    /\ pc = "raised"
    /\ gen = "transactions"
    /\ error = <<"ValueError",
                 "year_prob must have 3 elements for years 2022/2023/2024">>
    /\ before.files["transactions"].exists
    /\ files = before.files

\* C8: when a call ends in a ValueError the file system is as it was before
\* the call: no folder created, no file created or changed.
C8_NoFilesystemTouch ==
    (pc = "raised" /\ error[1] = "ValueError") =>
        /\ folder_exists = before.folder_exists
        /\ files = before.files

\* C9: every sales row satisfies
\* revenue = round(quantity * unit_price * (1 - discount_rate), 2)
\* for the quantity, unit_price and discount_rate written in the row.
C9_RevenueIdentity ==
    \A i \in 1..Len(DataRows(files["sales"])) :
        LET row == DataRows(files["sales"])[i]
        IN  row.revenue = MulRound(row.quantity * row.unit_price,
                                   100000 - 10 * row.discount_rate)

\* content of a table after main: the .csv, or the .csv.gz when the
\* original was removed
MainOutputRows(t) ==
    IF files[t].exists THEN DataRows(files[t])
    ELSE SelectSeq(gzip_decompress(gz_files[t].lines), LAMBDA l : ~l.hdr)

Column(rows, c) == {rows[i][c] : i \in 1..Len(rows)}

\* C10: after main every customer_id of sales, transactions and orders and
\* every user_id of ratings is a customer_id of customers.csv, and every
\* product_id of the four fact tables is a product_id of products.csv.
C10_JoinKeysExist ==
    main_pc = "done" =>
        LET customers == Column(MainOutputRows("customers"), "customer_id")
            products == Column(MainOutputRows("products"), "product_id")
        IN  /\ Column(MainOutputRows("sales"), "customer_id") \subseteq customers
            /\ Column(MainOutputRows("transactions"), "customer_id")
                  \subseteq customers
            /\ Column(MainOutputRows("orders"), "customer_id") \subseteq customers
            /\ Column(MainOutputRows("ratings"), "user_id") \subseteq customers
            /\ \A t \in {"sales", "ratings", "transactions", "orders"} :
                  Column(MainOutputRows(t), "product_id") \subseteq products

\* main is done and the fact tables use the last customer and the last
\* product
C10_Witness ==
    /\ main_pc = "done"
    /\ \E t \in {"sales", "transactions", "orders"} :
          NUM_CUSTOMERS \in Column(MainOutputRows(t), "customer_id")
    /\ \E t \in {"sales", "ratings", "transactions", "orders"} :
          NUM_PRODUCTS \in Column(MainOutputRows(t), "product_id")
    /\ Cardinality(Column(MainOutputRows("customers"), "customer_id"))
          = NUM_CUSTOMERS

\* the order of the created_paths list literal
MainOrder == <<"sales", "customers", "ratings", "products", "transactions",
               "orders">>

\* num_rows main passes (or leaves at its default) for each table
MainRows(t) ==
    CASE t = "sales" -> MainSalesArgs.num_rows
      [] t = "customers" -> MainCustomersArgs.num_rows
      [] t = "ratings" -> MainRatingsArgs.num_rows
      [] t = "products" -> MainProductsArgs.num_rows
      [] t = "transactions" -> MainTransactionsArgs.num_rows
      [] t = "orders" -> MainOrdersArgs.num_rows

\* main ended with an exception of one of its generators
MainAborted == main_pc = "raised" /\ gz_index = 0

\* C11: main calls the generators in the order sales, customers, ratings,
\* products, transactions, orders.  When a generator raises inside main the
\* only thing that happens next is that main ends with that exception: no
\* generator is started, no file and no .gz file is touched, nothing happens
\* afterwards, and the files of the generators that had returned are
\* complete and as they were when the failing generator started.
C11_AbortOnFailure ==
    /\ [](/\ created_paths = SubSeq(MainOrder, 1, Len(created_paths))
          /\ (main_pc = "generate" /\ pc # "idle") =>
                gen = MainOrder[Len(created_paths) + 1]
          /\ MainAborted =>
                /\ error # <<>>
                /\ calls = Len(created_paths) + 1
                /\ gz_files = [t \in Tables |-> NoFile]
                /\ \A i \in 1..Len(created_paths) :
                      LET t == created_paths[i]
                      IN  /\ files[t] = before.files[t]
                          /\ files[t].lines[1] = HeaderLine(Header(t))
                          /\ Len(DataRows(files[t])) = MainRows(t)
                /\ \A i \in (Len(created_paths) + 2)..6 :
                      ~files[MainOrder[i]].exists)
    /\ [][(main_pc = "generate" /\ pc = "raised") =>
              /\ main_pc' = "raised"
              /\ files' = files
              /\ gz_files' = gz_files
              /\ calls' = calls
              /\ error' = error
              /\ created_paths' = created_paths]_vars
    /\ [][main_pc # "raised"]_vars
    /\ [][main_pc = "generate" =>
              \A i \in 1..Len(created_paths) :
                  files'[created_paths[i]] = files[created_paths[i]]]_vars

\* main ended with the OSError of its fifth generator, whose file holds the
\* first chunk only; four files are complete and orders.csv was never made
C11_Witness ==
    /\ MainAborted
    /\ error[1] = "OSError"
    /\ created_paths = SubSeq(MainOrder, 1, 4)
    /\ gen = "transactions"
    /\ Len(DataRows(files["transactions"])) \in 1..(DefaultRows - 1)
    /\ \A i \in 1..4 : Len(DataRows(files[MainOrder[i]])) = MainRows(MainOrder[i])
    /\ ~files["orders"].exists

\* the compression loop is at a path it has to examine
AtPath == main_pc = "gzip" /\ gz_index <= Len(created_paths)

\* the three cases in which a produced path is not to be compressed
SkipCase(t) ==
    \/ ~files[t].exists
    \/ suffix(t) # ".csv"
    \/ size_mb(files[t]) < main_args.gzip_min_size_mb

\* C12: a step of the compression loop over a path that is missing, is not
\* a .csv or is smaller than gzip_min_size_mb changes no file and no .gz
\* file, raises nothing and leaves the loop at the next path; from such a
\* path main never ends with an exception; and with
\* create_gzip_copies=False no .gz file ever exists.
C12_SkipNoGzip ==
    /\ [](~main_args.create_gzip_copies => gz_files = [t \in Tables |-> NoFile])
    /\ [][(AtPath /\ SkipCase(created_paths[gz_index])
                  /\ gz_index' # gz_index) =>
              /\ gz_index' = gz_index + 1
              /\ main_pc' = "gzip"
              /\ gz_files' = gz_files
              /\ files' = files
              /\ error' = error]_vars
    /\ [][(AtPath /\ SkipCase(created_paths[gz_index])) =>
              main_pc' # "raised"]_vars

\* main is done: sales.csv had been removed by another process and was
\* skipped, products.csv was smaller than the threshold and was skipped, and
\* the paths after it were compressed
C12_Witness ==
    /\ main_pc = "done"
    /\ main_args.create_gzip_copies
    /\ ~main_args.remove_original_csv
    /\ ~files["sales"].exists
    /\ ~gz_files["sales"].exists
    /\ files["products"].exists
    /\ size_mb(files["products"]) < main_args.gzip_min_size_mb
    /\ ~gz_files["products"].exists
    /\ gz_files["transactions"].exists
    /\ gz_files["orders"].exists

\* C13: when the compression loop compresses a path, the .gz file next to
\* it holds the compressed content of the .csv, every other file and .gz
\* file is untouched, and the .csv is unchanged when remove_original_csv is
\* False and gone when it is True; when _gzip_csv_copy raises, the .csv
\* files are all as they were, so an original is removed only together with
\* a complete compressed copy.
C13_GzipCopy ==
    /\ [][(AtPath /\ ~SkipCase(created_paths[gz_index])
                  /\ gz_index' # gz_index) =>
              LET path == created_paths[gz_index]
              IN  /\ gz_files'[path].exists
                  /\ gzip_decompress(gz_files'[path].lines) = files[path].lines
                  /\ \A t \in Tables \ {path} :
                        gz_files'[t] = gz_files[t] /\ files'[t] = files[t]
                  /\ IF main_args.remove_original_csv
                     THEN ~files'[path].exists
                     ELSE files'[path] = files[path]]_vars
    /\ [][(AtPath /\ main_pc' = "raised") =>
              /\ files' = files
              /\ files[created_paths[gz_index]].exists
              /\ \A t \in Tables \ {created_paths[gz_index]} :
                    gz_files'[t] = gz_files[t]]_vars
    /\ [](\A t \in Tables :
            (main_pc \in {"gzip", "done"} /\ gz_files[t].exists
             /\ files[t].exists) =>
                gzip_decompress(gz_files[t].lines) = files[t].lines)

\* remove_original_csv=True: sales.csv was compressed completely and then
\* removed, the copy of customers.csv failed half way, customers.csv is
\* still there in full and main ended with the exception
C13_Witness ==
    /\ main_pc = "raised"
    /\ gz_index = 2
    /\ main_args.remove_original_csv
    /\ ~files["sales"].exists
    /\ Len(gzip_decompress(gz_files["sales"].lines)) = MainRows("sales") + 1
    /\ Len(DataRows(files["customers"])) = MainRows("customers")
    /\ gz_files["customers"].exists
    /\ Len(gzip_decompress(gz_files["customers"].lines)) \in 1..MainRows("customers")

\* day of the week of day number d, 0 = Monday .. 6 = Sunday
\* (1970-01-01, day 0, was a Thursday)
calendar_weekday(d) == (d + 3) % 7

\* the weekday factor (in percent) that went into the weight of the i-th
\* day of the window of the current sales or orders call
WeekdayFactor(i) ==
    IF gen = "sales"
    THEN date_prob[i] \div MonthWeights[month_of(args.start_date + i - 1)]
    ELSE date_prob[i]

\* a sales or orders call with seasonality has computed its day weights
HasDayWeights ==
    pc \in {"loop", "returned"} /\ gen \in {"sales", "orders"} /\ args.seasonality

\* C14: in a sales or orders call with seasonality, every Friday, Saturday
\* and Sunday of the window has a weekday factor in 1.02..1.15 and every
\* Monday, Tuesday and Wednesday one in 0.95..1.00.
C14_WeekendFavoured ==
    HasDayWeights =>
        \A i \in 1..Len(date_prob) :
            LET wd == calendar_weekday(args.start_date + i - 1)
            IN  /\ wd \in {4, 5, 6} => WeekdayFactor(i) \in 102..115
                /\ wd \in {0, 1, 2} => WeekdayFactor(i) \in 95..100

\* positions (1-based) of the window of the current call whose day falls in
\* one of the given months
DaysInMonths(ms) ==
    {i \in 1..Len(date_prob) : month_of(args.start_date + i - 1) \in ms}

\* C16: in a sales or orders call with seasonality the weight of a day is
\* its weekday factor times its month factor, so every November or December
\* day of the window weighs strictly more than every January day of the
\* window that falls on the same day of the week.
C16_MonthLift ==
    HasDayWeights =>
        LET january == DaysInMonths({1})
            novdec == DaysInMonths({11, 12})
        IN  \A i \in novdec : \A j \in january :
                (i - j) % 7 = 0 => date_prob[i] > date_prob[j]

\* C15: every .gz file main has written is the copy of a .csv file whose
\* size was strictly larger than gzip_min_size_mb.
C15_StrictlyLarger ==
    \A t \in Tables :
        gz_files[t].exists =>
            size_mb([exists |-> TRUE,
                     lines |-> gzip_decompress(gz_files[t].lines)])
                > main_args.gzip_min_size_mb

\* first value of range(...) of the current call
RangeStart == IF gen = "sales" THEN 1 ELSE 0

\* C17: at the head of every loop iteration all rows generated so far are
\* in the file (the loop variable counts them), so a batch is sampled only after
\* the one before it was written.  An iteration draws from the generator
\* only together with a write; it appends its rows behind the rows already
\* written, at least one row and at most min(chunk_size, num_rows), and
\* exactly chunk_size rows unless it is the last iteration.
C17_BatchByBatch ==
    /\ [](pc = "loop" =>
            /\ Len(OutputRows) = Min(chunk_start, range_stop) - RangeStart
            /\ chunk_start < range_stop =>
                  chunk_start = RangeStart
                      + args.chunk_size * ((chunk_start - RangeStart)
                                               \div args.chunk_size))
    /\ [][(pc = "loop" /\ rng' # rng) => files'[gen] # files[gen]]_vars
    /\ [][(pc = "loop" /\ files'[gen] # files[gen] /\ pc' = "loop") =>
              LET old == DataRows(files[gen])
                  new == DataRows(files'[gen])
                  added == Len(new) - Len(old)
              IN  /\ SubSeq(new, 1, Len(old)) = old
                  /\ added >= 1
                  /\ added <= Min(args.chunk_size, args.num_rows)
                  /\ chunk_start' < range_stop => added = args.chunk_size
                  /\ chunk_start' >= range_stop => Len(new) = args.num_rows]_vars

\* a transactions call has written a full batch of MaxChunk rows and then a
\* last, shorter batch
C17_Witness ==
    /\ pc = "loop"
    /\ gen = "transactions"
    /\ args.chunk_size = MaxChunk
    /\ args.num_rows = MaxRows
    /\ chunk_start = 2 * MaxChunk
    /\ chunk_start >= range_stop
    /\ Len(OutputRows) = MaxRows
    /\ OutputRows[MaxRows].transaction_id = MaxRows

\* C18: in the sales file every row carries the unit price its product has
\* in the price table of the call, so two rows of one product have the same
\* unit_price; in the orders file price is quantity times that unit price,
\* so price / quantity is the same for all rows of one product; and the
\* loop never changes the price table.
C18_StablePrice ==
    /\ [](/\ (pc \in {"loop", "returned"} /\ gen = "sales") =>
                \A i \in 1..Len(OutputRows) :
                    /\ OutputRows[i].unit_price
                          = product_unit_price[OutputRows[i].product_id]
                    /\ \A j \in 1..Len(OutputRows) :
                          OutputRows[i].product_id = OutputRows[j].product_id
                             => OutputRows[i].unit_price = OutputRows[j].unit_price
          /\ (pc \in {"loop", "returned"} /\ gen = "orders") =>
                \A i \in 1..Len(OutputRows) :
                    /\ OutputRows[i].price
                          = OutputRows[i].quantity
                            * product_unit_price[OutputRows[i].product_id]
                    /\ \A j \in 1..Len(OutputRows) :
                          OutputRows[i].product_id = OutputRows[j].product_id
                             => OutputRows[i].price * OutputRows[j].quantity
                                = OutputRows[j].price * OutputRows[i].quantity)
    /\ [][pc = "loop" => product_unit_price' = product_unit_price]_vars

\* a finished sales file written in batches of one row: two products with
\* different prices, both sold, one of them in two batches
C18_Witness ==
    /\ pc = "returned"
    /\ gen = "sales"
    /\ args.chunk_size = 1
    /\ Len(OutputRows) = 3
    /\ product_unit_price[1] # product_unit_price[2]
    /\ \E i, j, k \in 1..3 :
          /\ i # j
          /\ OutputRows[i].product_id = OutputRows[j].product_id
          /\ OutputRows[k].product_id # OutputRows[i].product_id

\* C19: every transactions row has a date (no cell is left as np.empty made
\* it), the date is year_start[year] plus an offset in 0..year_days[year]-1
\* and lies in the calendar year of the row's year column; the ranges of the
\* three years are exactly the three calendar years.
C19_YearConsistent ==
    /\ \A i \in 1..Len(DataRows(files["transactions"])) :
          LET row == DataRows(files["transactions"])[i]
          IN  /\ row.transaction_date # Uninitialized
              /\ row.transaction_date - year_start(row.year)
                    \in 0..(year_days(row.year) - 1)
              /\ year_of(row.transaction_date) = row.year
    /\ \A k \in 1..Len(Years) :
          LET y == Years[k]
          IN  /\ year_of(year_start(y)) = y
              /\ year_of(year_start(y) - 1) = y - 1
              /\ year_of(year_start(y) + year_days(y) - 1) = y
              /\ year_of(year_start(y) + year_days(y)) = y + 1

\* a finished transactions file whose batches hold rows of different years,
\* 2024 among them
C19_Witness ==
    /\ pc = "returned"
    /\ gen = "transactions"
    /\ args.chunk_size < args.num_rows
    /\ \E i, j \in 1..Len(OutputRows) :
          /\ OutputRows[i].year = 2024
          /\ OutputRows[j].year < 2024
          /\ year_of(OutputRows[i].transaction_date) = 2024
          /\ OutputRows[j].transaction_date < Date2024
          /\ OutputRows[j].transaction_date > year_start(OutputRows[j].year)

\* C20: once a call has written its first batch, its file holds the header
\* once, as the first line, followed by the rows of this call only: their
\* number is the number of rows generated so far (num_rows when the call
\* has returned) and the identifiers run from the first identifier of this
\* call, whatever the file held before the call.
C20_Overwrite ==
    ((pc = "loop" /\ wrote_header) \/ pc = "returned") =>
        /\ Output.lines[1] = HeaderLine(Header(gen))
        /\ HeaderCount(Output) = 1
        /\ Len(OutputRows) = Min(chunk_start, range_stop) - RangeStart
        /\ pc = "returned" => Len(OutputRows) = args.num_rows
        /\ gen # "ratings" =>
              \A i \in 1..Len(OutputRows) :
                  IdColumn(gen, OutputRows[i]) = FirstId + i - 1
        /\ \A i \in 1..Len(prev) :
              (prev[i].gen = gen /\ prev[i].args = args /\ pc = "returned")
                  => Output.lines = prev[i].lines

\* a call of one row has returned on a file that an earlier call of MaxRows
\* rows, cut short by a failing write, had left with MaxRows - 1 rows
C20_Witness ==
    /\ pc = "returned"
    /\ calls = 2
    /\ before.files[gen].exists
    /\ Len(DataRows(before.files[gen])) = MaxRows - 1
    /\ args.num_rows = 1
    /\ Len(Output.lines) = 2

====
